---- MODULE Spec2Model ----
(***************************************************************************)
(* Distributed-transaction saga of the transaction-view-service and the    *)
(* audit-log-service.                                                      *)
(*                                                                         *)
(*   transaction-view-service : TransactionService (saga coordinator and   *)
(*                              the auditConfirmationResolvers registry)   *)
(*   audit-log-service        : AuditLogHandler / AuditLogService /        *)
(*                              AuditLogRepository (audit consumer)        *)
(*   NATS                     : one FIFO per subscription                  *)
(*                                                                         *)
(* A saga is identified by its correlation id.  uuidv4() is modelled as a  *)
(* counter, so every invocation gets a fresh id.                           *)
(***************************************************************************)
EXTENDS Integers, Sequences, FiniteSets, TLC

\* ------------------------------------------------------------------ bounds
MaxSagas == 2                 \* invocations of create/update/deleteTransaction
Users    == {"u1", "u2"}      \* authenticated principals
Creators == {"u1"}            \* principals that create rows; the code treats
                              \* user ids alike, so the other principal only
                              \* tries to change rows it does not own
Amounts  == {100}             \* CreateTransactionDto.amount values
Patches  == {"COMPLETED"}     \* UpdateTransactionDto.status values
MaxMsgs  == 2                 \* messages waiting on each consumer subject
MaxRejected == 1               \* requests the routes turn down
MaxWaiters == 2               \* registry alone: calls of waitForAuditConfirmation
MaxTaken == 2                 \* registry alone: messages published on
                              \* audit.log.created
MaxFaults == 1                \* failures injected by the environment (broker
                              \* publish errors, database statement errors)

VARIABLES
    saga,        \* correlation id -> state of that invocation
    db,          \* committed rows of the transactions table
    nextId,      \* rows inserted so far (uuid generation of the primary key)
    resolvers,   \* keys of auditConfirmationResolvers (each holds a live timer)
    subscribed,  \* auditConfirmationSubscriptionInitialized
    createQ,     \* audit.log.create    -> audit consumer
    rollbackQ,   \* audit.log.rollback  -> audit consumer
    createdQ,    \* audit.log.created   -> coordinator
    failedQ,     \* audit.log.failed    -> (no subscriber)
    auditLogs,   \* rows of the audit_logs table, in insertion order
    faults,      \* environment failures so far
    rejected,    \* requests answered 400 VALIDATION_ERROR by the routes
    waiters,     \* registry alone: the promises handed out by
                 \* waitForAuditConfirmation, in the order of the calls
    loopLog      \* registry alone: what the subscription loop did with each
                 \* message it has taken so far

vars == <<saga, db, nextId, resolvers, subscribed,
          createQ, rollbackQ, createdQ, failedQ, auditLogs, faults,
          rejected, waiters, loopLog>>

CorrIds == 1..MaxSagas
WaiterIds == 1..MaxWaiters
\* a promise not handed out yet
NoWaiter == [key |-> 0, promise |-> "unused", timer |-> FALSE, entry |-> FALSE]
TxId(n) == [tx |-> n]
TxIds   == {TxId(n) : n \in 1..MaxSagas}
NoRow   == [absent |-> TRUE]
NoDto   == [absent |-> TRUE]
NoId    == [tx |-> 0]

IdleSaga ==
    [pc |-> "idle", op |-> "none", userId |-> "none", id |-> NoId,
     before |-> NoDto, after |-> NoDto,
     tx |-> "none", confirmed |-> "none", ackOf |-> 0,
     pub |-> "none", err |-> "none", rb |-> "none", conn |-> "none"]

\* a generator that hands out the same correlation id every time
NextCorr_Constant == CHOOSE c \in CorrIds : \A d \in CorrIds : c <= d

\* uuidv4(): the next unused correlation id
NextCorr == Cardinality({c \in CorrIds : saga[c].pc # "idle"}) + 1

\* ------------------------------------------------------------ pure helpers
\* TransactionService.mapToDto
mapToDto(id, row) ==
    [id |-> id, userId |-> row.userId, amount |-> row.amount,
     status |-> row.status]

\* Transaction entity defaults applied by manager.create/save
NewTransaction(userId, amount) ==
    [userId |-> userId, amount |-> amount, status |-> "PENDING"]

\* Object.assign(existingTransaction, dto) with dto = {status}
AssignDto(row, status) == [row EXCEPT !.status = status]

\* an envelope whose before image is the entity object itself, which
\* Object.assign has patched by the time the envelope is built
AuditLogDto_Aliased(action, id, userId, before, after, c) ==
    [action |-> action, entityType |-> "Transaction", entityId |-> id,
     userId |-> userId, status |-> "SUCCESS",
     changes |-> [before |-> IF before # NoDto /\ after # NoDto
                             THEN after ELSE before,
                  after |-> after],
     correlationId |-> c]

\* the CreateAuditLogDto built by the three sagas
AuditLogDto(action, id, userId, before, after, c) ==
    [action |-> action, entityType |-> "Transaction", entityId |-> id,
     userId |-> userId, status |-> "SUCCESS",
     changes |-> [before |-> before, after |-> after],
     correlationId |-> c]

ActionOf(op) ==
    CASE op = "create" -> "CREATE"
      [] op = "update" -> "UPDATE"
      [] op = "delete" -> "DELETE"

\* a row is write-locked while an open local transaction has changed it
Locked(id) ==
    \E c \in CorrIds :
        /\ saga[c].tx = "active"
        /\ saga[c].id = id
        /\ saga[c].pc \in {"registered", "waiting"}

\* ------------------------------------------------------------------- Init
Init ==
    /\ saga = [c \in CorrIds |-> IdleSaga]
    /\ db = [i \in TxIds |-> NoRow]
    /\ nextId = 0
    /\ resolvers = {}
    /\ subscribed = TRUE
    /\ createQ = <<>>
    /\ rollbackQ = <<>>
    /\ createdQ = <<>>
    /\ failedQ = <<>>
    /\ auditLogs = <<>>
    /\ faults = 0
    /\ rejected = 0
    /\ waiters = [w \in WaiterIds |-> NoWaiter]
    /\ loopLog = <<>>

\* the environment may still inject a failure
Fault == faults < MaxFaults /\ faults' = faults + 1

\* ------------------------------------------------- correlation registry
\* waitForAuditConfirmation that has not put the resolver in the map by the
\* time the request is published
waitForAuditConfirmation_NoSet(c) == resolvers

\* waitForAuditConfirmation: setTimeout + auditConfirmationResolvers.set
waitForAuditConfirmation(c) == resolvers \cup {c}

\* a lookup that returns every waiter of the map
GetResolver_All(correlationId) == resolvers

\* a lookup that takes the oldest waiter instead of the one named by the
\* message
GetResolver_Any(correlationId) ==
    IF resolvers = {} THEN {}
    ELSE {CHOOSE c \in resolvers : \A d \in resolvers : c <= d}

\* auditConfirmationResolvers.get(data.correlationId) in the shared
\* subscription loop: the set of map keys the message resolves
GetResolver(correlationId) == resolvers \cap {correlationId}

\* ------------------------------------------------------ local database
Row(dto) == [userId |-> dto.userId, amount |-> dto.amount, status |-> dto.status]

\* a commit that loses the pending remove
CommitTransaction_NoRemove(rec) ==
    CASE rec.op \in {"create", "update"} /\ rec.after # NoDto ->
             [db EXCEPT ![rec.id] = Row(rec.after)]
      [] OTHER -> db

\* queryRunner.commitTransaction(): the pending change of the saga with
\* record rec becomes visible
CommitTransaction(rec) ==
    CASE rec.op = "delete" /\ rec.before # NoDto ->
             [db EXCEPT ![rec.id] = NoRow]
      [] rec.op \in {"create", "update"} /\ rec.after # NoDto ->
             [db EXCEPT ![rec.id] = Row(rec.after)]
      [] OTHER -> db

\* a rollback that leaves the pending change in the table
RollbackTransaction_Leak(rec) == CommitTransaction(rec)

\* queryRunner.rollbackTransaction(): the pending change is discarded
RollbackTransaction(rec) == db

\* a lookup by id alone
FindOne_NoOwner(id, userId) == db[id]

\* manager.findOne(Transaction, {where: {id, userId}})
FindOne(id, userId) ==
    IF db[id] # NoRow /\ db[id].userId = userId THEN db[id] ELSE NoRow

\* what the caller gets when NotFoundException is thrown
NotFoundException == [error |-> "NotFound"]

\* TransactionService.getTransaction: transactionRepository.findOne({id,
\* userId}), NotFoundException when there is no such row
getTransaction(id, userId) ==
    IF FindOne(id, userId) = NoRow THEN NotFoundException
    ELSE mapToDto(id, FindOne(id, userId))

\* TransactionService.listTransactions: findWithFilters({...query, userId})
listTransactions(userId) ==
    {mapToDto(i, db[i]) :
        i \in {j \in TxIds : db[j] # NoRow /\ db[j].userId = userId}}

\* ----------------------------------------------------- saga coordinator
\* a catch block that goes on to the rollback publish without
\* queryRunner.rollbackTransaction()
Caught_NoRollback(rec, err) ==
    [rec EXCEPT !.pc = "rolledback", !.err = err]

\* the catch block up to the end of `await queryRunner.rollbackTransaction()`:
\* the saga record after the error `err` was thrown
Caught(rec, err) ==
    [rec EXCEPT !.pc = "rolledback", !.tx = "rolledback", !.err = err]

\* a finally block that is skipped when the catch block rethrows
Release_OnReturn(rec) ==
    [rec EXCEPT !.pc = "done",
                !.conn = IF rec.err = "none" THEN "released" ELSE @]

\* finally { await queryRunner.release() }; the invocation then returns or
\* throws
Release(rec) == [rec EXCEPT !.pc = "done", !.conn = "released"]

\* a saga that publishes its request again when the waiter resolved false
Resume_Retry(rec, auditConfirmed) ==
    IF auditConfirmed THEN rec
    ELSE [rec EXCEPT !.pc = "registered", !.pub = "none",
                     !.confirmed = "pending"]

\* Resume without the `if (!auditConfirmed)` test
Resume_NoCheck(rec, auditConfirmed) == rec

\* const auditConfirmed = await confirmationPromise;
\* if (!auditConfirmed) throw new DistributedTransactionException(...)
\* otherwise the saga goes on to queryRunner.commitTransaction()
Resume(rec, auditConfirmed) ==
    IF auditConfirmed THEN rec ELSE Caught(rec, "DistributedTransaction")

\* createTransaction behind a mutex that admits one saga at a time
CreateStart_Serialized(userId, amount) ==
    LET c   == NextCorr
        id  == TxId(nextId + 1)
        rec == [IdleSaga EXCEPT !.op = "create", !.userId = userId,
                                !.tx = "active",
                                !.conn = "held"] IN
    /\ c \in CorrIds
    /\ \A d \in CorrIds : saga[d].pc \in {"idle", "done"}
    /\ nextId' = nextId + 1
    /\ saga' = [saga EXCEPT ![c] =
           [rec EXCEPT !.pc = "registered", !.id = id,
               !.after = mapToDto(id, NewTransaction(userId, amount)),
               !.confirmed = "pending"]]
    /\ resolvers' = waitForAuditConfirmation(c)
    /\ UNCHANGED <<db, faults, subscribed, rejected, waiters, loopLog, createQ, rollbackQ,
                   createdQ, failedQ, auditLogs>>

\* createTransaction up to the call of natsClient.publish: uuidv4,
\* startTransaction, manager.save, envelope, waitForAuditConfirmation
CreateStart(userId, amount) ==
    LET c   == NextCorr
        id  == TxId(nextId + 1)
        rec == [IdleSaga EXCEPT !.op = "create", !.userId = userId,
                                !.tx = "active",
                                !.conn = "held"] IN
    /\ c \in CorrIds
    /\ \/ /\ nextId' = nextId + 1
          /\ saga' = [saga EXCEPT ![c] =
                 [rec EXCEPT !.pc = "registered", !.id = id,
                     !.after = mapToDto(id, NewTransaction(userId, amount)),
                     !.confirmed = "pending"]]
          /\ resolvers' = waitForAuditConfirmation(c)
          /\ UNCHANGED <<db, faults>>
       \/ \* manager.save rejects the insert
          /\ Fault
          /\ saga' = [saga EXCEPT ![c] = Caught(rec, "Save")]
          /\ db' = RollbackTransaction(rec)
          /\ UNCHANGED <<nextId, resolvers>>
    /\ UNCHANGED <<subscribed, rejected, waiters, loopLog, createQ, rollbackQ, createdQ, failedQ,
                   auditLogs>>

\* updateTransaction up to the call of natsClient.publish
UpdateStart(id, userId, status) ==
    LET c   == NextCorr
        row == FindOne(id, userId)
        rec == [IdleSaga EXCEPT !.op = "update", !.userId = userId,
                                !.id = id, !.tx = "active",
                                !.conn = "held"] IN
    /\ c \in CorrIds
    /\ id.tx <= nextId
    /\ IF row = NoRow
       THEN /\ saga' = [saga EXCEPT ![c] = Caught(rec, "NotFound")]
            /\ db' = RollbackTransaction(rec)
            /\ UNCHANGED resolvers
       ELSE /\ ~Locked(id)
            /\ saga' = [saga EXCEPT ![c] =
                   [rec EXCEPT !.pc = "registered",
                       !.before = mapToDto(id, row),
                       !.after = mapToDto(id, AssignDto(row, status)),
                       !.confirmed = "pending"]]
            /\ resolvers' = waitForAuditConfirmation(c)
            /\ UNCHANGED db
    /\ UNCHANGED <<nextId, subscribed, rejected, waiters, loopLog, createQ, rollbackQ, createdQ,
                   failedQ, auditLogs, faults>>

\* deleteTransaction up to the call of natsClient.publish
DeleteStart(id, userId) ==
    LET c   == NextCorr
        row == FindOne(id, userId)
        rec == [IdleSaga EXCEPT !.op = "delete", !.userId = userId,
                                !.id = id, !.tx = "active",
                                !.conn = "held"] IN
    /\ c \in CorrIds
    /\ id.tx <= nextId
    /\ IF row = NoRow
       THEN /\ saga' = [saga EXCEPT ![c] = Caught(rec, "NotFound")]
            /\ db' = RollbackTransaction(rec)
            /\ UNCHANGED resolvers
       ELSE /\ ~Locked(id)
            /\ saga' = [saga EXCEPT ![c] =
                   [rec EXCEPT !.pc = "registered",
                       !.before = mapToDto(id, row),
                       !.confirmed = "pending"]]
            /\ resolvers' = waitForAuditConfirmation(c)
            /\ UNCHANGED db
    /\ UNCHANGED <<nextId, subscribed, rejected, waiters, loopLog, createQ, rollbackQ, createdQ,
                   failedQ, auditLogs, faults>>

\* natsClient.publish(AUDIT_LOG_CREATE, auditLogDto) returns; the saga then
\* awaits confirmationPromise, which the timer may already have resolved
PublishCreateOk(c) ==
    /\ saga[c].pc = "registered"
    /\ createQ' = Append(createQ,
           AuditLogDto(ActionOf(saga[c].op), saga[c].id, saga[c].userId,
                       saga[c].before, saga[c].after, c))
    /\ LET rec == [saga[c] EXCEPT !.pc = "waiting", !.pub = "published"] IN
       saga' = [saga EXCEPT ![c] =
                   IF rec.confirmed = "pending" THEN rec
                   ELSE Resume(rec, rec.confirmed = "true")]
    /\ db' = IF saga'[c].tx = "rolledback"
             THEN RollbackTransaction(saga[c]) ELSE db
    /\ UNCHANGED <<nextId, resolvers, subscribed, rejected, waiters, loopLog, rollbackQ, createdQ,
                   failedQ, auditLogs, faults>>

\* natsClient.publish(AUDIT_LOG_CREATE, auditLogDto) throws
PublishCreateFail(c) ==
    /\ Fault
    /\ saga[c].pc = "registered"
    /\ saga' = [saga EXCEPT ![c] =
                   Caught([saga[c] EXCEPT !.pub = "failed"], "Publish")]
    /\ db' = RollbackTransaction(saga[c])
    /\ UNCHANGED <<nextId, resolvers, subscribed, rejected, waiters, loopLog, createQ, rollbackQ,
                   createdQ, failedQ, auditLogs>>

\* the saga was resumed with auditConfirmed and did not throw:
\* queryRunner.commitTransaction() succeeds, return, release
CommitOk(c) ==
    /\ saga[c].pc = "waiting"
    /\ saga[c].confirmed # "pending"
    /\ db' = CommitTransaction(saga[c])
    /\ saga' = [saga EXCEPT ![c] = Release([saga[c] EXCEPT !.tx = "committed"])]
    /\ UNCHANGED <<nextId, resolvers, subscribed, rejected, waiters, loopLog, createQ, rollbackQ,
                   createdQ, failedQ, auditLogs, faults>>

\* queryRunner.commitTransaction() throws
CommitFail(c) ==
    /\ Fault
    /\ saga[c].pc = "waiting"
    /\ saga[c].confirmed # "pending"
    /\ saga' = [saga EXCEPT ![c] = Caught(saga[c], "Commit")]
    /\ db' = RollbackTransaction(saga[c])
    /\ UNCHANGED <<nextId, resolvers, subscribed, rejected, waiters, loopLog, createQ, rollbackQ,
                   createdQ, failedQ, auditLogs>>

\* a rollback message published from the finally block, on every outcome
PublishRollbackOk_Finally(c) ==
    /\ \/ saga[c].pc = "rolledback"
       \/ saga[c].pc = "done" /\ saga[c].rb = "none"
    /\ rollbackQ' = Append(rollbackQ,
                           [correlationId |-> c, reason |-> saga[c].err])
    /\ saga' = [saga EXCEPT ![c] = Release([saga[c] EXCEPT !.rb = "published"])]
    /\ UNCHANGED <<db, nextId, resolvers, subscribed, rejected, waiters, loopLog, createQ, createdQ,
                   failedQ, auditLogs, faults>>

\* a catch block that publishes the rollback message only when the audit
\* request had been published
PublishRollbackOk_IfRequested(c) ==
    /\ saga[c].pc = "rolledback"
    /\ rollbackQ' = IF saga[c].pub = "published"
                    THEN Append(rollbackQ,
                                [correlationId |-> c, reason |-> saga[c].err])
                    ELSE rollbackQ
    /\ saga' = [saga EXCEPT ![c] =
                   Release([saga[c] EXCEPT !.rb =
                       IF saga[c].pub = "published" THEN "published" ELSE @])]
    /\ UNCHANGED <<db, nextId, resolvers, subscribed, rejected, waiters, loopLog, createQ, createdQ,
                   failedQ, auditLogs, faults>>

\* catch: natsClient.publish(AUDIT_LOG_ROLLBACK, ...) returns; throw error
PublishRollbackOk(c) ==
    /\ saga[c].pc = "rolledback"
    /\ rollbackQ' = Append(rollbackQ,
                           [correlationId |-> c, reason |-> saga[c].err])
    /\ saga' = [saga EXCEPT ![c] = Release([saga[c] EXCEPT !.rb = "published"])]
    /\ UNCHANGED <<db, nextId, resolvers, subscribed, rejected, waiters, loopLog, createQ, createdQ,
                   failedQ, auditLogs, faults>>

\* catch: natsClient.publish(AUDIT_LOG_ROLLBACK, ...) throws; that error
\* leaves the catch block in place of the original one
PublishRollbackFail(c) ==
    /\ Fault
    /\ saga[c].pc = "rolledback"
    /\ saga' = [saga EXCEPT ![c] =
                   Release([saga[c] EXCEPT !.rb = "failed", !.err = "Publish"])]
    /\ UNCHANGED <<db, nextId, resolvers, subscribed, rejected, waiters, loopLog, createQ, rollbackQ,
                   createdQ, failedQ, auditLogs>>

\* one iteration of the shared subscription loop on audit.log.created:
\* clearTimeout, delete the entry, resolve(true)
ReceiveCreated ==
    /\ subscribed
    /\ createdQ # <<>>
    /\ LET data == Head(createdQ)
           hit  == GetResolver(data.correlationId) IN
       /\ createdQ' = Tail(createdQ)
       /\ resolvers' = resolvers \ hit
       /\ saga' = [c \in CorrIds |->
                     IF c \in hit /\ saga[c].confirmed = "pending"
                     THEN LET rec == [saga[c] EXCEPT
                                         !.confirmed = "true",
                                         !.ackOf = data.correlationId] IN
                          IF rec.pc = "waiting" THEN Resume(rec, TRUE)
                          ELSE rec
                     ELSE saga[c]]
    /\ UNCHANGED <<db, nextId, subscribed, rejected, waiters, loopLog, createQ, rollbackQ, failedQ,
                   auditLogs, faults>>

\* a timeout callback that resolves false and leaves the entry in the map
TimerFire_KeepEntry(c) ==
    /\ c \in resolvers
    /\ saga[c].confirmed = "pending"
    /\ saga' = [saga EXCEPT ![c] =
                   LET rec == [saga[c] EXCEPT !.confirmed = "false"] IN
                   IF rec.pc = "waiting" THEN Resume(rec, FALSE) ELSE rec]
    /\ db' = IF saga'[c].tx = "rolledback" /\ saga[c].tx = "active"
             THEN RollbackTransaction(saga[c]) ELSE db
    /\ UNCHANGED <<resolvers, nextId, subscribed, rejected, waiters, loopLog, createQ, rollbackQ,
                   createdQ, failedQ, auditLogs, faults>>

\* a timeout callback that deletes the entry and never calls resolve
TimerFire_NoResolve(c) ==
    /\ c \in resolvers
    /\ resolvers' = resolvers \ {c}
    /\ UNCHANGED <<saga, db, nextId, subscribed, rejected, waiters, loopLog, createQ, rollbackQ,
                   createdQ, failedQ, auditLogs, faults>>

\* the setTimeout callback of waitForAuditConfirmation: delete the entry,
\* resolve(false)
TimerFire(c) ==
    /\ c \in resolvers
    /\ resolvers' = resolvers \ {c}
    /\ saga' = [saga EXCEPT ![c] =
                   IF saga[c].confirmed = "pending"
                   THEN LET rec == [saga[c] EXCEPT !.confirmed = "false"] IN
                        IF rec.pc = "waiting" THEN Resume(rec, FALSE)
                        ELSE rec
                   ELSE saga[c]]
    /\ db' = IF saga'[c].tx = "rolledback" /\ saga[c].tx = "active"
             THEN RollbackTransaction(saga[c]) ELSE db
    /\ UNCHANGED <<nextId, subscribed, rejected, waiters, loopLog, createQ, rollbackQ, createdQ,
                   failedQ, auditLogs, faults>>

\* --------------------------------------------------------- audit consumer
\* createAuditLog that overwrites the rows already stored for the
\* correlation id instead of inserting
createAuditLog_Upsert(dto) ==
    IF \E i \in DOMAIN auditLogs :
           auditLogs[i].correlationId = dto.correlationId
    THEN [i \in DOMAIN auditLogs |->
             IF auditLogs[i].correlationId = dto.correlationId
             THEN [auditLogs[i] EXCEPT !.status = dto.status,
                                       !.action = dto.action]
             ELSE auditLogs[i]]
    ELSE Append(auditLogs,
           [id |-> Len(auditLogs) + 1, action |-> dto.action,
            entityType |-> dto.entityType, entityId |-> dto.entityId,
            userId |-> dto.userId, status |-> dto.status,
            changes |-> dto.changes, correlationId |-> dto.correlationId])

\* createAuditLog that saves the entity twice
createAuditLog_Twice(dto) ==
    LET row == [id |-> Len(auditLogs) + 1, action |-> dto.action,
                entityType |-> dto.entityType, entityId |-> dto.entityId,
                userId |-> dto.userId, status |-> dto.status,
                changes |-> dto.changes, correlationId |-> dto.correlationId]
    IN Append(Append(auditLogs, row), [row EXCEPT !.id = Len(auditLogs) + 2])

\* AuditLogService.createAuditLog -> AuditLogRepository.create
createAuditLog(dto) ==
    Append(auditLogs,
           [id |-> Len(auditLogs) + 1, action |-> dto.action,
            entityType |-> dto.entityType, entityId |-> dto.entityId,
            userId |-> dto.userId, status |-> dto.status,
            changes |-> dto.changes, correlationId |-> dto.correlationId])

\* markAsRolledBack that updates one matching row only
markAsRolledBack_First(correlationId) ==
    [i \in DOMAIN auditLogs |->
        IF /\ auditLogs[i].correlationId = correlationId
           /\ \A j \in 1..(i - 1) : auditLogs[j].correlationId # correlationId
        THEN [auditLogs[i] EXCEPT !.status = "ROLLED_BACK"]
        ELSE auditLogs[i]]

\* markAsRolledBack that flips the status of the matching rows
markAsRolledBack_Toggle(correlationId) ==
    [i \in DOMAIN auditLogs |->
        IF auditLogs[i].correlationId = correlationId
        THEN [auditLogs[i] EXCEPT !.status =
                 IF @ = "ROLLED_BACK" THEN "SUCCESS" ELSE "ROLLED_BACK"]
        ELSE auditLogs[i]]

\* markAsRolledBack without the {correlationId} criterion
markAsRolledBack_All(correlationId) ==
    [i \in DOMAIN auditLogs |-> [auditLogs[i] EXCEPT !.status = "ROLLED_BACK"]]

\* AuditLogRepository.markAsRolledBack
markAsRolledBack(correlationId) ==
    [i \in DOMAIN auditLogs |->
        IF auditLogs[i].correlationId = correlationId
        THEN [auditLogs[i] EXCEPT !.status = "ROLLED_BACK"]
        ELSE auditLogs[i]]

\* a message published on audit.log.created reaches the coordinator's
\* subscription, if there is one
PublishCreated(msg) == IF subscribed THEN Append(createdQ, msg) ELSE createdQ

\* a handler that acknowledges the request and does not store the row
HandleCreateOk_NoPersist ==
    /\ createQ # <<>>
    /\ LET data == Head(createQ) IN
       createdQ' = PublishCreated(
              [correlationId |-> data.correlationId,
               auditLogId |-> Len(auditLogs) + 1, success |-> TRUE])
    /\ createQ' = Tail(createQ)
    /\ UNCHANGED <<saga, db, nextId, resolvers, subscribed, rejected, waiters, loopLog,
                   rollbackQ, failedQ, faults, auditLogs>>

\* handleCreateAuditLog: row written, audit.log.created published
HandleCreateOk ==
    /\ createQ # <<>>
    /\ LET data == Head(createQ) IN
       /\ auditLogs' = createAuditLog(data)
       /\ createdQ' = PublishCreated(
              [correlationId |-> data.correlationId,
               auditLogId |-> Len(auditLogs) + 1, success |-> TRUE])
    /\ createQ' = Tail(createQ)
    /\ UNCHANGED <<saga, db, nextId, resolvers, subscribed, rejected, waiters, loopLog,
                   rollbackQ, failedQ, faults>>

\* handleCreateAuditLog: createAuditLog throws, audit.log.failed published
\* (pub = TRUE) or that publish throws as well (pub = FALSE)
HandleCreatePersistFail(pub) ==
    /\ Fault
    /\ createQ # <<>>
    /\ LET data == Head(createQ) IN
       failedQ' = IF pub
                  THEN Append(failedQ, [correlationId |-> data.correlationId,
                                        success |-> FALSE])
                  ELSE failedQ
    /\ createQ' = Tail(createQ)
    /\ UNCHANGED <<saga, db, nextId, resolvers, subscribed, rejected, waiters, loopLog,
                   rollbackQ, createdQ, auditLogs>>

\* a handler whose failed audit.log.created publish had reached the
\* subscribers all the same, and which then publishes audit.log.failed too
HandleCreateAckFail_Both(pub) ==
    /\ Fault
    /\ createQ # <<>>
    /\ LET data == Head(createQ) IN
       /\ auditLogs' = createAuditLog(data)
       /\ createdQ' = PublishCreated(
              [correlationId |-> data.correlationId,
               auditLogId |-> Len(auditLogs) + 1, success |-> TRUE])
       /\ failedQ' = Append(failedQ, [correlationId |-> data.correlationId,
                                      success |-> FALSE])
    /\ createQ' = Tail(createQ)
    /\ UNCHANGED <<saga, db, nextId, resolvers, subscribed, rejected, waiters, loopLog, rollbackQ>>

\* handleCreateAuditLog: row written, the publish of audit.log.created
\* throws, the catch block publishes audit.log.failed (pub = TRUE) or that
\* publish throws as well (pub = FALSE)
HandleCreateAckFail(pub) ==
    /\ Fault
    /\ createQ # <<>>
    /\ LET data == Head(createQ) IN
       /\ auditLogs' = createAuditLog(data)
       /\ failedQ' = IF pub
                     THEN Append(failedQ, [correlationId |-> data.correlationId,
                                           success |-> FALSE])
                     ELSE failedQ
    /\ createQ' = Tail(createQ)
    /\ UNCHANGED <<saga, db, nextId, resolvers, subscribed, rejected, waiters, loopLog,
                   rollbackQ, createdQ>>

\* handleRollbackAuditLog
HandleRollback ==
    /\ rollbackQ # <<>>
    /\ auditLogs' = markAsRolledBack(Head(rollbackQ).correlationId)
    /\ rollbackQ' = Tail(rollbackQ)
    /\ UNCHANGED <<saga, db, nextId, resolvers, subscribed, rejected, waiters, loopLog,
                   createQ, createdQ, failedQ, faults>>

\* the broker hands the next audit.log.failed message to the subscribers of
\* that subject; the coordinator subscribes to audit.log.created only
DeliverFailed ==
    /\ failedQ # <<>>
    /\ failedQ' = Tail(failedQ)
    /\ UNCHANGED <<saga, db, nextId, resolvers, subscribed, rejected, waiters, loopLog,
                   createQ, rollbackQ, createdQ, auditLogs, faults>>

\* ------------------------------------------------------------------- Next
Next ==
    \/ \E u \in Creators, a \in Amounts : CreateStart(u, a)
    \/ \E i \in TxIds, u \in Users, p \in Patches : UpdateStart(i, u, p)
    \/ \E i \in TxIds, u \in Users : DeleteStart(i, u)
    \/ \E c \in CorrIds : PublishCreateOk(c)
    \/ \E c \in CorrIds : PublishCreateFail(c)
    \/ \E c \in CorrIds : CommitOk(c)
    \/ \E c \in CorrIds : CommitFail(c)
    \/ \E c \in CorrIds : PublishRollbackOk(c)
    \/ \E c \in CorrIds : PublishRollbackFail(c)
    \/ ReceiveCreated
    \/ \E c \in CorrIds : TimerFire(c)
    \/ HandleCreateOk
    \/ \E pub \in BOOLEAN : HandleCreatePersistFail(pub)
    \/ \E pub \in BOOLEAN : HandleCreateAckFail(pub)
    \/ HandleRollback
    \/ DeliverFailed

Spec == Init /\ [][Next]_vars

\* ------------------------------------------------------------ bootstrap
\* the constructor runs initializeAuditConfirmationSubscription: either the
\* subscription exists and the flag is set, or subscribe threw, the error
\* was logged and the flag stays false; initializationPromise resolves in
\* both cases
BootInit ==
    /\ saga = [c \in CorrIds |-> IdleSaga]
    /\ db = [i \in TxIds |-> NoRow]
    /\ nextId = 0
    /\ resolvers = {}
    /\ subscribed \in BOOLEAN
    /\ createQ = <<>>
    /\ rollbackQ = <<>>
    /\ createdQ = <<>>
    /\ failedQ = <<>>
    /\ auditLogs = <<>>
    /\ faults = 0
    /\ rejected = 0
    /\ waiters = [w \in WaiterIds |-> NoWaiter]
    /\ loopLog = <<>>

BootSpec == BootInit /\ [][Next]_vars

\* ------------------------------------------------------------ the routes
\* request bodies as they arrive, before validation
RequestAmounts  == Amounts \cup {0}
RequestStatuses == Patches \cup {"UNKNOWN"}

TransactionStatus == {"PENDING", "COMPLETED", "FAILED", "ROLLED_BACK"}

\* a schema that lets every amount through
createTransactionSchema_Any(amount) == TRUE

\* createTransactionSchema.parse: amount is z.number().positive()
createTransactionSchema(amount) == amount > 0

\* updateTransactionSchema.parse: status is z.nativeEnum(TransactionStatus)
updateTransactionSchema(status) == status \in TransactionStatus

\* parse throws a ZodError, the error handler answers 400; the service is
\* not called
Reject ==
    /\ rejected < MaxRejected
    /\ rejected' = rejected + 1
    /\ UNCHANGED <<saga, db, nextId, resolvers, subscribed, createQ,
                   rollbackQ, createdQ, failedQ, auditLogs, faults,
                   waiters, loopLog>>

\* POST /api/transactions
PostTransaction(userId, amount) ==
    IF createTransactionSchema(amount)
    THEN CreateStart(userId, amount)
    ELSE Reject

\* PUT /api/transactions/:id
PutTransaction(id, userId, status) ==
    IF updateTransactionSchema(status)
    THEN UpdateStart(id, userId, status)
    ELSE Reject

\* the service behind its routes, broker and databases healthy
RouteNext ==
    \/ \E u \in Creators, a \in RequestAmounts : PostTransaction(u, a)
    \/ \E i \in TxIds, u \in Users, p \in RequestStatuses :
          PutTransaction(i, u, p)
    \/ \E i \in TxIds, u \in Users : DeleteStart(i, u)
    \/ \E c \in CorrIds : PublishCreateOk(c)
    \/ \E c \in CorrIds : CommitOk(c)
    \/ \E c \in CorrIds : PublishRollbackOk(c)
    \/ ReceiveCreated
    \/ \E c \in CorrIds : TimerFire(c)
    \/ HandleCreateOk
    \/ HandleRollback

RouteSpec == Init /\ [][RouteNext]_vars

\* ------------------------------------------------------------- shutdown
\* closeGracefully on SIGINT/SIGTERM: natsClient.close() drains and closes
\* the connection, which ends the audit.log.created subscription; the
\* handler does not touch auditConfirmationResolvers or the sagas in flight
closeGracefully ==
    /\ subscribed
    /\ subscribed' = FALSE
    /\ UNCHANGED <<saga, db, nextId, resolvers, createQ, rollbackQ,
                   createdQ, failedQ, auditLogs, faults, rejected,
                   waiters, loopLog>>

\* natsClient.publish on the closed connection throws: in the saga body the
\* catch block is entered, in the catch block the publish error leaves it
PublishClosed(c) ==
    /\ ~subscribed
    /\ saga[c].pc \in {"registered", "rolledback"}
    /\ saga' = [saga EXCEPT ![c] =
                   IF saga[c].pc = "registered"
                   THEN Caught([saga[c] EXCEPT !.pub = "failed"], "Publish")
                   ELSE Release([saga[c] EXCEPT !.rb = "failed",
                                                !.err = "Publish"])]
    /\ db' = RollbackTransaction(saga[c])
    /\ UNCHANGED <<nextId, resolvers, subscribed, rejected, waiters, loopLog, createQ, rollbackQ,
                   createdQ, failedQ, auditLogs, faults>>

\* the service until the signal; after it, until process.exit, the timers
\* still fire and every publish fails
ShutdownNext ==
    \/ subscribed /\ Next
    \/ closeGracefully
    \/ ~subscribed /\ \E c \in CorrIds : TimerFire(c)
    \/ \E c \in CorrIds : PublishClosed(c)

ShutdownSpec == Init /\ [][ShutdownNext]_vars

\* ------------------------------------------- the audit consumer on its own
\* CreateAuditLogDto.status values a publisher may send
DtoStatuses == {"SUCCESS", "FAILED"}

\* audit.log.create envelopes; the same envelope may be on the subject more
\* than once, and audit_logs has no unique index on correlation_id
Envelopes ==
    {[AuditLogDto("CREATE", NoId, "u1", NoDto, NoDto, c)
         EXCEPT !.status = st] : c \in CorrIds, st \in DtoStatuses}

RollbackMsgs == {[correlationId |-> c, reason |-> "DistributedTransaction"] :
                    c \in CorrIds}

SeqsUpTo(S, n) == UNION {[1..k -> S] : k \in 0..n}

\* the audit-log-service with arbitrary traffic waiting on its two subjects
ConsumerInit ==
    /\ saga = [c \in CorrIds |-> IdleSaga]
    /\ db = [i \in TxIds |-> NoRow]
    /\ nextId = 0
    /\ resolvers = {}
    /\ subscribed = TRUE
    /\ createQ \in SeqsUpTo(Envelopes, MaxMsgs)
    /\ rollbackQ \in SeqsUpTo(RollbackMsgs, MaxMsgs)
    /\ createdQ = <<>>
    /\ failedQ = <<>>
    /\ auditLogs = <<>>
    /\ faults = 0
    /\ rejected = 0
    /\ waiters = [w \in WaiterIds |-> NoWaiter]
    /\ loopLog = <<>>

ConsumerNext ==
    \/ HandleCreateOk
    \/ \E pub \in BOOLEAN : HandleCreatePersistFail(pub)
    \/ \E pub \in BOOLEAN : HandleCreateAckFail(pub)
    \/ HandleRollback

ConsumerSpec == ConsumerInit /\ [][ConsumerNext]_vars

\* ------------------------------------------- the registry on its own
\* TransactionService's map of waiters with arbitrary registrations, also
\* repeated ones for a correlation id, and arbitrary traffic on
\* audit.log.created.  An entry of the map holds the resolve function and
\* the timer of one promise: waiters[w].entry says that the entry under
\* waiters[w].key is the one of promise w, waiters[w].timer that the
\* timeout of promise w is still armed.

\* a payload that JSON.parse rejects
Malformed == [raw |-> "not json"]
AckFor(k) == [correlationId |-> k, auditLogId |-> 1, success |-> TRUE]
CreatedMsgs == {Malformed} \cup {AckFor(k) : k \in CorrIds}

\* JSON.parse(new TextDecoder().decode(msg.data)) returns
Parses(msg) == msg # Malformed

\* the next promise to be handed out
NextWaiter == Cardinality({w \in WaiterIds : waiters[w].promise # "unused"}) + 1

\* waitForAuditConfirmation(k, timeout): arm the timer, then
\* auditConfirmationResolvers.set(k, {resolve, timeoutId}), which replaces
\* an entry already stored under k; the timer of the replaced entry stays
\* armed
Register(k) ==
    LET w == NextWaiter IN
    /\ w \in WaiterIds
    /\ waiters' = [v \in WaiterIds |->
                     IF v = w
                     THEN [key |-> k, promise |-> "pending",
                           timer |-> TRUE, entry |-> TRUE]
                     ELSE IF waiters[v].key = k
                          THEN [waiters[v] EXCEPT !.entry = FALSE]
                          ELSE waiters[v]]
    /\ resolvers' = waitForAuditConfirmation(k)
    /\ UNCHANGED <<saga, db, nextId, subscribed, rejected, createQ, rollbackQ,
                   createdQ, failedQ, auditLogs, faults, loopLog>>

\* the setTimeout callback of promise w:
\* auditConfirmationResolvers.delete(correlationId), resolve(false)
WaiterTimeout(w) ==
    /\ waiters[w].timer
    /\ waiters' = [v \in WaiterIds |->
                     LET r == IF waiters[v].key = waiters[w].key
                              THEN [waiters[v] EXCEPT !.entry = FALSE]
                              ELSE waiters[v] IN
                     IF v = w
                     THEN [r EXCEPT !.timer = FALSE,
                                    !.promise = IF @ = "pending"
                                                THEN "false" ELSE @]
                     ELSE r]
    /\ resolvers' = resolvers \ {waiters[w].key}
    /\ UNCHANGED <<saga, db, nextId, subscribed, rejected, createQ, rollbackQ,
                   createdQ, failedQ, auditLogs, faults, loopLog>>

\* some publisher puts a message on audit.log.created
PublishAny(msg) ==
    /\ subscribed
    /\ Len(createdQ) + Len(loopLog) < MaxTaken
    /\ createdQ' = Append(createdQ, msg)
    /\ UNCHANGED <<saga, db, nextId, resolvers, subscribed, rejected, createQ,
                   rollbackQ, failedQ, auditLogs, faults, waiters, loopLog>>

\* a subscription loop without the try/catch around its body: the error of
\* JSON.parse ends the for-await loop
RegistryReceive_NoCatch ==
    /\ subscribed
    /\ createdQ # <<>>
    /\ LET data == Head(createdQ) IN
       IF ~Parses(data)
       THEN /\ loopLog' = Append(loopLog, "error")
            /\ subscribed' = FALSE
            /\ UNCHANGED <<waiters, resolvers>>
       ELSE LET hit == {w \in WaiterIds : /\ waiters[w].entry
                                          /\ waiters[w].key = data.correlationId} IN
            /\ waiters' = [w \in WaiterIds |->
                   IF w \in hit
                   THEN [waiters[w] EXCEPT !.timer = FALSE, !.entry = FALSE,
                            !.promise = IF @ = "pending" THEN "true" ELSE @]
                   ELSE waiters[w]]
            /\ resolvers' = resolvers \ GetResolver(data.correlationId)
            /\ loopLog' = Append(loopLog,
                                 IF hit = {} THEN "dropped" ELSE "routed")
            /\ UNCHANGED subscribed
    /\ createdQ' = Tail(createdQ)
    /\ UNCHANGED <<saga, db, nextId, rejected, createQ, rollbackQ,
                   failedQ, auditLogs, faults>>

\* one iteration of the shared subscription loop: JSON.parse, get; with an
\* entry: clearTimeout, delete, resolve(true); an error is caught and
\* logged inside the loop body
RegistryReceive ==
    /\ subscribed
    /\ createdQ # <<>>
    /\ LET data == Head(createdQ) IN
       IF ~Parses(data)
       THEN /\ loopLog' = Append(loopLog, "error")
            /\ UNCHANGED <<waiters, resolvers>>
       ELSE LET hit == {w \in WaiterIds : /\ waiters[w].entry
                                          /\ waiters[w].key = data.correlationId} IN
            /\ waiters' = [w \in WaiterIds |->
                   IF w \in hit
                   THEN [waiters[w] EXCEPT !.timer = FALSE, !.entry = FALSE,
                            !.promise = IF @ = "pending" THEN "true" ELSE @]
                   ELSE waiters[w]]
            /\ resolvers' = resolvers \ GetResolver(data.correlationId)
            /\ loopLog' = Append(loopLog,
                                 IF hit = {} THEN "dropped" ELSE "routed")
    /\ createdQ' = Tail(createdQ)
    /\ UNCHANGED <<saga, db, nextId, subscribed, rejected, createQ, rollbackQ,
                   failedQ, auditLogs, faults>>

RegistryNext ==
    \/ \E k \in CorrIds : Register(k)
    \/ \E w \in WaiterIds : WaiterTimeout(w)
    \/ \E msg \in CreatedMsgs : PublishAny(msg)
    \/ RegistryReceive

RegistrySpec == Init /\ [][RegistryNext]_vars

\* The next step of saga c inside the coordinator process: its timer
\* firing, or the awaited publish or commit settling (returning or
\* throwing).
CoordinatorStep(c) ==
    \/ TimerFire(c)
    \/ PublishCreateOk(c) \/ PublishCreateFail(c)
    \/ CommitOk(c) \/ CommitFail(c)
    \/ PublishRollbackOk(c) \/ PublishRollbackFail(c)

\* What the coordinator's runtime guarantees: a timer that is set fires and
\* an awaited call settles, so a saga that has a next step takes one.
\* Nothing is assumed of the audit consumer or of message delivery.
CoordinatorFairness == \A c \in CorrIds : WF_vars(CoordinatorStep(c))

LiveSpec == Spec /\ CoordinatorFairness

\* ---------------------------------------------------------------- properties
\* the invocation returned to its caller without throwing
Succeeded(c) == saga[c].pc = "done" /\ saga[c].err = "none"
\* the invocation threw
Failed(c) == saga[c].pc = "done" /\ saga[c].err # "none"
\* audit rows carrying correlation id c
RowsOf(c) == {i \in DOMAIN auditLogs : auditLogs[i].correlationId = c}

C2_SuccessState ==
    \A c \in CorrIds :
        Succeeded(c) /\ saga[c].op \in {"create", "update"} =>
            /\ saga[c].tx = "committed"
            /\ RowsOf(c) # {}
            /\ \A i \in RowsOf(c) : auditLogs[i].status = "SUCCESS"
            /\ saga[c].rb = "none"
            /\ \A k \in DOMAIN rollbackQ : rollbackQ[k].correlationId # c

C2_SuccessStep ==
    \A c \in CorrIds :
        ~Succeeded(c) /\ Succeeded(c)' /\ saga[c].op \in {"create", "update"}
            => db'[saga[c].id] = Row(saga[c].after)

C3_FailedCreateInvisible ==
    \A c \in CorrIds :
        saga[c].op = "create" /\ saga[c].tx = "rolledback"
            /\ saga[c].id \in TxIds => db[saga[c].id] = NoRow

C3_RollbackStep ==
    \A c \in CorrIds :
        saga[c].tx # "rolledback" /\ saga'[c].tx = "rolledback" =>
            /\ db' = db
            /\ saga'[c].op \in {"update", "delete"}
                 /\ saga'[c].before # NoDto
                    => db'[saga'[c].id] = Row(saga'[c].before)

C4_FailedSagaAuditRolledBack ==
    \A c \in CorrIds :
        /\ Failed(c) /\ saga[c].err = "DistributedTransaction"
        /\ \A k \in DOMAIN createQ : createQ[k].correlationId # c
        /\ \A k \in DOMAIN rollbackQ : rollbackQ[k].correlationId # c
        => \A i \in RowsOf(c) : auditLogs[i].status = "ROLLED_BACK"

\* C5: every successful create, update or delete saga has exactly one audit
\* row: action CREATE, UPDATE or DELETE respectively, status SUCCESS,
\* entityId equal to the transaction id.
C5_ExactlyOneAuditRow ==
    \A c \in CorrIds :
        Succeeded(c) =>
            /\ Cardinality(RowsOf(c)) = 1
            /\ \A i \in RowsOf(c) :
                  /\ auditLogs[i].action = ActionOf(saga[c].op)
                  /\ auditLogs[i].status = "SUCCESS"
                  /\ auditLogs[i].entityType = "Transaction"
                  /\ auditLogs[i].entityId = saga[c].id

C5_Witness ==
    \E c, d \in CorrIds :
        /\ c # d /\ saga[c].id = saga[d].id
        /\ Succeeded(c) /\ Succeeded(d)
        /\ Cardinality(RowsOf(c)) = 1 /\ Cardinality(RowsOf(d)) = 1

\* C6: when all N sagas are creates and all have succeeded there are exactly
\* N transaction rows and exactly N CREATE audit rows with status SUCCESS,
\* carrying N distinct correlation ids; each waiter was resolved by the ack
\* of its own correlation id; a create fails only after an injected failure
\* or after its own timer fired.
AllCreatesSucceeded ==
    \A c \in CorrIds : saga[c].op = "create" /\ Succeeded(c)

C6_ConcurrentCreates ==
    /\ AllCreatesSucceeded =>
          LET created == {i \in DOMAIN auditLogs :
                            /\ auditLogs[i].action = "CREATE"
                            /\ auditLogs[i].status = "SUCCESS"} IN
          /\ Cardinality({i \in TxIds : db[i] # NoRow}) = MaxSagas
          /\ Cardinality(created) = MaxSagas
          /\ Cardinality({auditLogs[i].correlationId : i \in created})
                = MaxSagas
    /\ \A c \in CorrIds : saga[c].ackOf \in {0, c}
    /\ \A c \in CorrIds :
          saga[c].op = "create" /\ Failed(c)
              => faults > 0 \/ saga[c].confirmed = "false"

\* both creates were in flight together: the later call published first
C6_Witness ==
    /\ AllCreatesSucceeded
    /\ auditLogs[1].correlationId # 1

\* C7: the waiter of a correlation id is in the registry map before the
\* audit.log.create of that correlation id is published: as long as the
\* waiter of a published request is unresolved it is in the map, and every
\* request, audit row and ack carries a correlation id whose waiter exists.
C7_RegisterBeforePublish ==
    /\ \A c \in CorrIds :
          saga[c].pub = "published" /\ saga[c].confirmed = "pending"
              => c \in resolvers
    /\ \A k \in DOMAIN createQ :
          saga[createQ[k].correlationId].confirmed # "none"
    /\ \A k \in DOMAIN createdQ :
          saga[createdQ[k].correlationId].confirmed # "none"

C7_Witness ==
    \E c \in CorrIds :
        /\ createdQ # <<>> /\ Head(createdQ).correlationId = c
        /\ saga[c].confirmed = "pending" /\ c \in resolvers

\* C8: when audit.log.failed for a correlation id with a pending waiter is
\* delivered, the registry removes the waiter and resolves it false.
C8_FailedStep ==
    \A c \in CorrIds :
        /\ failedQ # <<>> /\ Head(failedQ).correlationId = c
        /\ failedQ' = Tail(failedQ)
        /\ c \in resolvers /\ saga[c].confirmed = "pending"
        => c \notin resolvers' /\ saga'[c].confirmed = "false"

C8_FailedResolvesWaiter == [][C8_FailedStep]_vars

\* C9: every saga that has started eventually returns (success or failure)
\* whatever the audit consumer does (a saga never leaves "done" and never
\* becomes idle again, so it is enough that again and again no started saga
\* is unfinished); when the timer of a waiter that got no
\* ack fires, the waiter is resolved false and the saga takes the rollback
\* path with DistributedTransactionError.
C9_TimeoutStep ==
    \A c \in CorrIds :
        /\ c \in resolvers /\ c \notin resolvers'
        /\ saga[c].pc = "waiting" /\ saga[c].confirmed = "pending"
        /\ createdQ' = createdQ
        => /\ saga'[c].confirmed = "false"
           /\ saga'[c].tx = "rolledback"
           /\ saga'[c].err = "DistributedTransaction"

C10_RollbackState ==
    \A c \in CorrIds :
        /\ Failed(c) => /\ saga[c].tx = "rolledback"
                        /\ saga[c].rb \in {"published", "failed"}
        /\ saga[c].rb # "none" => saga[c].tx = "rolledback"
        /\ saga[c].rb = "failed" => faults > 0 /\ saga[c].err = "Publish"

C10_RollbackStep ==
    /\ rollbackQ' # rollbackQ /\ Len(rollbackQ') > Len(rollbackQ) =>
          \E c \in CorrIds :
              /\ rollbackQ' = Append(rollbackQ,
                       [correlationId |-> c, reason |-> saga[c].err])
              /\ saga[c].tx = "rolledback" /\ saga[c].pc = "rolledback"
              /\ saga[c].err # "none"
              /\ saga'[c].rb = "published" /\ Failed(c)'
    /\ \A c \in CorrIds :
          ~Failed(c) /\ Failed(c)' /\ saga'[c].rb = "published"
              => rollbackQ' = Append(rollbackQ,
                       [correlationId |-> c, reason |-> saga[c].err])

C11_AbortIsDistributedTransactionError ==
    \A c \in CorrIds :
        Failed(c) /\ (saga[c].confirmed = "false" \/ saga[c].pub = "failed")
            => saga[c].err = "DistributedTransaction"

\* C12: when the audit.log.rollback publish fails after the waiter resolved
\* false, the caller still gets DistributedTransactionError, with the local
\* transaction rolled back.
C12_RollbackPublishFailureKeepsError ==
    \A c \in CorrIds :
        /\ saga[c].pc = "done" /\ saga[c].pub = "published"
        /\ saga[c].confirmed = "false" /\ saga[c].rb = "failed"
        => saga[c].err = "DistributedTransaction"
               /\ saga[c].tx = "rolledback"

\* C13: an update or delete whose findOne({id, userId}) found no row fails
\* with NotFound, has published no audit.log.create and has registered no
\* waiter.
C13_MissingRowFailsNotFound ==
    \A c \in CorrIds :
        /\ saga[c].pc = "done" /\ saga[c].op \in {"update", "delete"}
        /\ saga[c].before = NoDto
        => /\ saga[c].err = "NotFound"
           /\ saga[c].pub = "none" /\ saga[c].confirmed = "none"
           /\ saga[c].tx = "rolledback"

\* the responses one step of the audit consumer has published
NewCreated == Len(createdQ') - Len(createdQ)
NewFailed == Len(failedQ') - Len(failedQ)
HandledCreate == createQ # <<>> /\ createQ' = Tail(createQ)

\* C14 as stated: every processed audit.log.create message gets exactly one
\* response, audit.log.created or audit.log.failed.
C14_ExactlyOneStep == HandledCreate => NewCreated + NewFailed = 1

C14_AtMostOneStep ==
    HandledCreate =>
        LET c == Head(createQ).correlationId IN
        /\ NewCreated \in {0, 1} /\ NewFailed \in {0, 1}
        /\ NewCreated + NewFailed <= 1
        /\ NewCreated = 1 =>
              /\ createdQ'[Len(createdQ')].correlationId = c
              /\ faults' = faults
        /\ NewFailed = 1 => failedQ'[Len(failedQ')].correlationId = c
        /\ faults' = faults => NewCreated = 1
        /\ NewCreated + NewFailed = 0 => faults' = faults + 1

C15_FailedLeavesNoRow ==
    \A k \in DOMAIN failedQ : RowsOf(failedQ[k].correlationId) = {}

\* the consumer has taken the next audit.log.rollback message off its
\* subject
HandledRollback == rollbackQ # <<>> /\ rollbackQ' = Tail(rollbackQ)

\* C16: processing audit.log.rollback for a correlation id leaves every
\* audit row of that correlation id, duplicates included, with status
\* ROLLED_BACK.
C16_RollbackStep ==
    HandledRollback =>
        /\ Len(auditLogs') = Len(auditLogs)
        /\ \A i \in DOMAIN auditLogs' :
              auditLogs'[i].correlationId = Head(rollbackQ).correlationId
                  => auditLogs'[i].status = "ROLLED_BACK"

C17_IdempotentStep ==
    \A c \in CorrIds :
        HandledRollback /\ Head(rollbackQ).correlationId = c
            => /\ auditLogs' = markAsRolledBack(c)
               /\ markAsRolledBack(c)' = auditLogs'

C17_RollbackIdempotent == [][C17_IdempotentStep]_vars

\* the rows of c are rolled back and a further rollback of c is next
C17_Witness ==
    \E c \in CorrIds :
        /\ RowsOf(c) # {}
        /\ \A i \in RowsOf(c) : auditLogs[i].status = "ROLLED_BACK"
        /\ rollbackQ # <<>> /\ Head(rollbackQ).correlationId = c

\* C18: a stored audit row is never deleted; the only edit it ever gets is
\* its status becoming ROLLED_BACK; a ROLLED_BACK row never changes again;
\* a rollback for one correlation id changes no row of another.
C18_RowStep ==
    /\ Len(auditLogs') >= Len(auditLogs)
    /\ \A i \in DOMAIN auditLogs :
          /\ \/ auditLogs'[i] = auditLogs[i]
             \/ auditLogs'[i] = [auditLogs[i] EXCEPT !.status = "ROLLED_BACK"]
          /\ auditLogs[i].status = "ROLLED_BACK"
                => auditLogs'[i] = auditLogs[i]
          /\ HandledRollback /\ auditLogs[i].correlationId
                                    # Head(rollbackQ).correlationId
                => auditLogs'[i] = auditLogs[i]
          /\ ~HandledRollback => auditLogs'[i] = auditLogs[i]

C19_ShutdownStep ==
    subscribed /\ ~subscribed' =>
        /\ resolvers' = {}
        /\ \A c \in resolvers :
              saga[c].confirmed = "pending"
                  => /\ saga'[c].confirmed = "false"
                     /\ saga[c].pc = "waiting" => saga'[c].tx = "rolledback"

C19_ShutdownResolvesWaiters == [][C19_ShutdownStep]_vars

ValidDto(dto) ==
    dto # NoDto => dto.amount > 0 /\ dto.status \in TransactionStatus

\* C20: a create or update request that fails validation is turned down
\* before any saga starts: the step that answers it changes no saga, no
\* waiter, no message queue and neither store, and nothing in the system
\* ever carries the values of such a request.
C20_RejectStep ==
    rejected' # rejected =>
        UNCHANGED <<saga, db, nextId, resolvers, createQ, rollbackQ,
                    createdQ, failedQ, auditLogs>>

C20_NoTrace ==
    /\ \A c \in CorrIds : ValidDto(saga[c].before) /\ ValidDto(saga[c].after)
    /\ \A i \in TxIds :
          db[i] # NoRow => db[i].amount > 0
                              /\ db[i].status \in TransactionStatus
    /\ \A k \in DOMAIN createQ :
          ValidDto(createQ[k].changes.before)
              /\ ValidDto(createQ[k].changes.after)
    /\ \A i \in DOMAIN auditLogs :
          ValidDto(auditLogs[i].changes.before)
              /\ ValidDto(auditLogs[i].changes.after)

C20_ValidationBeforeSaga == []C20_NoTrace /\ [][C20_RejectStep]_vars

\* a request was turned down, and the one saga that ever started is that
\* of a valid request
C20_Witness ==
    /\ rejected > 0
    /\ \E c \in CorrIds : Succeeded(c)
    /\ Cardinality({c \in CorrIds : saga[c].pc # "idle"}) = 1
    /\ rollbackQ = <<>> /\ Len(auditLogs) = 1

OwnedByOther(id, userId) == db[id] # NoRow /\ db[id].userId # userId

\* C21: what a user gets for a row of another user is what they get for an
\* absent row: get-by-id answers NotFound, list returns own rows only, an
\* update or delete throws NotFound before any waiter or message exists and
\* ends as a failure; a row changes only by a commit of its owner's saga.
C21_ReadState ==
    \A u \in Users :
        /\ \A i \in TxIds :
              /\ OwnedByOther(i, u) => getTransaction(i, u) = NotFoundException
              /\ db[i] = NoRow => getTransaction(i, u) = NotFoundException
              /\ getTransaction(i, u) # NotFoundException
                    => getTransaction(i, u).userId = u
        /\ \A dto \in listTransactions(u) : dto.userId = u

C21_WriteState ==
    \A c \in CorrIds :
        saga[c].pc = "done" /\ saga[c].op \in {"update", "delete"}
            /\ saga[c].before = NoDto
            => saga[c].err = "NotFound" /\ saga[c].confirmed = "none"

C21_WriteStep ==
    /\ \A c \in CorrIds :
          /\ saga[c].pc = "idle" /\ saga'[c].pc # "idle"
          /\ saga'[c].op \in {"update", "delete"}
          /\ \/ OwnedByOther(saga'[c].id, saga'[c].userId)
             \/ db[saga'[c].id] = NoRow
          => /\ saga'[c] = Caught([IdleSaga EXCEPT !.op = saga'[c].op,
                                      !.userId = saga'[c].userId,
                                      !.id = saga'[c].id,
                                      !.conn = "held"], "NotFound")
             /\ UNCHANGED <<db, resolvers, createQ, rollbackQ, auditLogs>>
    /\ \A i \in TxIds :
          db'[i] # db[i] =>
              \E c \in CorrIds :
                  /\ saga[c].id = i /\ saga'[c].tx = "committed"
                  /\ saga[c].tx = "active"
                  /\ db[i] # NoRow => db[i].userId = saga[c].userId
                  /\ db'[i] # NoRow => db'[i].userId = saga[c].userId

C21_OwnerScoped ==
    []C21_ReadState /\ []C21_WriteState /\ [][C21_WriteStep]_vars

\* the other user's update or delete of a committed row has failed with
\* NotFound and the row is still there, readable by its owner only
C21_Witness ==
    \E c \in CorrIds :
        /\ saga[c].pc = "done" /\ saga[c].err = "NotFound"
        /\ OwnedByOther(saga[c].id, saga[c].userId)
        /\ getTransaction(saga[c].id, saga[c].userId) = NotFoundException
        /\ getTransaction(saga[c].id, db[saga[c].id].userId)
              # NotFoundException

\* C22: the UPDATE audit row of a successful update has changes.before
\* equal to the row as the saga read it before the patch and changes.after
\* equal to that row with the patch applied; the before image is taken from
\* the table at the moment the saga reads it.
C22_UpdateImages ==
    \A c \in CorrIds :
        Succeeded(c) /\ saga[c].op = "update" =>
            /\ RowsOf(c) # {}
            /\ \A i \in RowsOf(c) :
                  /\ auditLogs[i].action = "UPDATE"
                  /\ auditLogs[i].changes.before = saga[c].before
                  /\ auditLogs[i].changes.after = saga[c].after
            /\ saga[c].after.status \in Patches
            /\ saga[c].after
                  = [saga[c].before EXCEPT !.status = saga[c].after.status]

C22_ReadStep ==
    \A c \in CorrIds :
        /\ saga[c].pc = "idle" /\ saga'[c].pc = "registered"
        /\ saga'[c].op = "update"
        => saga'[c].before = mapToDto(saga'[c].id, db[saga'[c].id])

C22_UpdateBeforeAfter == []C22_UpdateImages /\ [][C22_ReadStep]_vars

\* a successful update whose audit row shows the status before and after
C22_Witness ==
    \E c \in CorrIds :
        /\ Succeeded(c) /\ saga[c].op = "update"
        /\ \E i \in RowsOf(c) :
              /\ auditLogs[i].changes.before.status = "PENDING"
              /\ auditLogs[i].changes.after.status = "COMPLETED"

\* C23: after a successful delete the row is absent, get-by-id answers
\* NotFound, and the saga has exactly one audit row: action DELETE, status
\* SUCCESS, changes.before the row as it was, no changes.after.
C23_DeleteOutcome ==
    \A c \in CorrIds :
        Succeeded(c) /\ saga[c].op = "delete" =>
            /\ db[saga[c].id] = NoRow
            /\ getTransaction(saga[c].id, saga[c].userId) = NotFoundException
            /\ Cardinality(RowsOf(c)) = 1
            /\ \A i \in RowsOf(c) :
                  /\ auditLogs[i].action = "DELETE"
                  /\ auditLogs[i].status = "SUCCESS"
                  /\ auditLogs[i].entityId = saga[c].id
                  /\ auditLogs[i].changes.before = saga[c].before
                  /\ auditLogs[i].changes.before # NoDto
                  /\ auditLogs[i].changes.before.userId = saga[c].userId
                  /\ auditLogs[i].changes.after = NoDto

C23_DeleteStep ==
    \A c \in CorrIds :
        /\ saga[c].pc = "idle" /\ saga'[c].pc = "registered"
        /\ saga'[c].op = "delete"
        => saga'[c].before = mapToDto(saga'[c].id, db[saga'[c].id])

C24_LateAckEndsRolledBack ==
    \A c \in CorrIds :
        /\ Failed(c) /\ saga[c].confirmed = "false" /\ saga[c].ackOf = 0
        /\ saga[c].rb = "published"
        /\ RowsOf(c) # {}
        /\ \A k \in DOMAIN createdQ : createdQ[k].correlationId # c
        /\ \A k \in DOMAIN rollbackQ : rollbackQ[k].correlationId # c
        => /\ saga[c].tx = "rolledback"
           /\ saga[c].err = "DistributedTransaction"
           /\ \A i \in RowsOf(c) : auditLogs[i].status = "ROLLED_BACK"

\* C25: no saga publishes audit.log.create while the shared subscription on
\* audit.log.created is not established.
C25_SubscribedBeforePublish ==
    \A c \in CorrIds : saga[c].pub = "published" => subscribed

\* C26: no saga waits for another one: whatever the other sagas are doing,
\* a new create can start, a registered saga can publish, an acknowledged
\* saga can commit, a rolled-back saga can publish its rollback and return;
\* every step changes the record of at most one saga, so a timeout of one
\* saga neither delays nor fails another.
C26_NeverBlocked ==
    /\ NextCorr \in CorrIds =>
          \A u \in Creators, a \in Amounts : ENABLED CreateStart(u, a)
    /\ \A c \in CorrIds :
          /\ saga[c].pc = "registered" => ENABLED PublishCreateOk(c)
          /\ saga[c].pc = "waiting" /\ saga[c].confirmed = "true"
                => ENABLED CommitOk(c)
          /\ saga[c].pc = "rolledback" => ENABLED PublishRollbackOk(c)
          /\ c \in resolvers => ENABLED TimerFire(c)

C26_OneSagaStep ==
    \A c, d \in CorrIds :
        c # d /\ saga'[c] # saga[c] => saga'[d] = saga[d]

C26_NotSerialized == []C26_NeverBlocked /\ [][C26_OneSagaStep]_vars

\* the later create has committed while the earlier one is still waiting
\* for its ack
C26_Witness ==
    \E c, d \in CorrIds :
        /\ c < d
        /\ saga[c].op = "create" /\ saga[c].pc = "waiting"
        /\ saga[c].confirmed = "pending"
        /\ saga[d].op = "create" /\ Succeeded(d)
        /\ db[saga[d].id] # NoRow

\* the audit.log.create messages of saga c that are waiting at the consumer
RequestsOf(c) == {k \in DOMAIN createQ : createQ[k].correlationId = c}

\* C27: an invocation publishes audit.log.create at most once, and only
\* from its first pass; once it has failed it has returned: it publishes no
\* request, its local transaction stays rolled back and its outcome stays.
C27_AtMostOnce ==
    \A c \in CorrIds :
        /\ Cardinality(RequestsOf(c)) + Cardinality(RowsOf(c)) <= 1
        /\ RequestsOf(c) # {} \/ RowsOf(c) # {}
              => saga[c].pub = "published"

C27_NoRetryStep ==
    \A c \in CorrIds :
        /\ Cardinality(RequestsOf(c))' > Cardinality(RequestsOf(c))
              => /\ saga[c].pc = "registered" /\ saga[c].pub = "none"
                 /\ saga'[c].pub = "published"
        /\ saga[c].pub # "none" => saga'[c].pub = saga[c].pub
        /\ saga[c].tx \in {"rolledback", "committed"}
              => saga'[c].tx = saga[c].tx
        /\ saga[c].pc = "rolledback" => saga'[c].pc \in {"rolledback", "done"}
        /\ saga[c].pc = "done"
              => /\ saga'[c].pc = "done" /\ saga'[c].err = saga[c].err
                 /\ saga'[c].rb = saga[c].rb

C27_NoAutomaticRetry == []C27_AtMostOnce /\ [][C27_NoRetryStep]_vars

\* a saga that timed out has returned its failure; the request it sent
\* is still the only one, and not yet persisted
C27_Witness ==
    \E c \in CorrIds :
        /\ Failed(c) /\ saga[c].confirmed = "false"
        /\ saga[c].pub = "published"
        /\ Cardinality(RequestsOf(c)) = 1 /\ RowsOf(c) = {}

\* the step takes the oldest audit.log.created from the subscription and
\* it carries correlation id c
AckHandled(c) ==
    /\ createdQ # <<>> /\ createdQ' = Tail(createdQ)
    /\ Head(createdQ).correlationId = c

\* C28: a registered waiter is resolved once, true by an ack or false by its
\* timer: an entry is in the map exactly while its promise is pending, a
\* resolved promise never changes, an entry is registered once, the ack
\* path and the timer path each remove the entry they resolve, and an ack
\* that finds no entry changes nothing of its saga.
C28_EntryIffPending ==
    \A c \in CorrIds :
        /\ c \in resolvers => saga[c].confirmed = "pending" /\ saga[c].pc # "idle"
        /\ saga[c].confirmed = "true" => saga[c].ackOf = c

C28_ResolveStep ==
    \A c \in CorrIds :
        /\ saga[c].confirmed \in {"true", "false"}
              => saga'[c].confirmed = saga[c].confirmed
        /\ saga[c].confirmed = "none" /\ saga'[c].confirmed # "none"
              => saga'[c].confirmed = "pending" /\ c \in resolvers'
        /\ saga[c].confirmed = "pending" /\ saga'[c].confirmed = "true"
              => c \in resolvers /\ c \notin resolvers' /\ AckHandled(c)
        /\ saga[c].confirmed = "pending" /\ saga'[c].confirmed = "false"
              => c \in resolvers /\ c \notin resolvers' /\ createdQ' = createdQ
        /\ c \in resolvers /\ c \notin resolvers'
              => saga'[c].confirmed \in {"true", "false"}
        /\ c \notin resolvers /\ c \in resolvers' => saga[c].pc = "idle"
        /\ AckHandled(c) /\ c \notin resolvers => saga'[c] = saga[c]

C28_ResolvedExactlyOnce == []C28_EntryIffPending /\ [][C28_ResolveStep]_vars

\* with no failure injected, a saga was resolved false by its timer, its
\* request was persisted afterwards and the ack that followed was dropped
C28_Witness ==
    \E c \in CorrIds :
        /\ saga[c].confirmed = "false" /\ c \notin resolvers
        /\ RowsOf(c) # {} /\ createdQ = <<>> /\ faults = 0

\* C29: handling an audit.log.created for correlation id C removes at most
\* the entry of C and resumes at most the saga of C; every other entry and
\* saga, the local table and the other subjects are unchanged, and with no
\* entry for C the registry and all sagas are unchanged.
C29_AckFrame ==
    \A c \in CorrIds :
        AckHandled(c) =>
            /\ resolvers' = resolvers \ {c}
            /\ \A d \in CorrIds \ {c} : saga'[d] = saga[d]
            /\ c \notin resolvers => saga' = saga
            /\ c \in resolvers => saga'[c].confirmed = "true"
            /\ UNCHANGED <<db, nextId, subscribed, createQ, rollbackQ,
                           failedQ, auditLogs>>

C29_AckChangesOnlyItsEntry == [][C29_AckFrame]_vars

\* the later saga was resolved by its ack while the earlier one is still
\* registered and waiting
C29_Witness ==
    \E c, d \in CorrIds :
        /\ d < c /\ saga[c].confirmed = "true" /\ saga[c].ackOf = c
        /\ d \in resolvers /\ saga[d].pc = "waiting"
        /\ saga[d].confirmed = "pending"

\* C30: whatever the order in which the consumer handles the audit.log.create
\* and the audit.log.rollback of one correlation id, once both were
\* published and both have been handled no row of that correlation id has
\* status SUCCESS.
C30_OrderIndependentCompensation ==
    \A c \in CorrIds :
        /\ saga[c].pub = "published" /\ saga[c].rb = "published"
        /\ RequestsOf(c) = {}
        /\ \A k \in DOMAIN rollbackQ : rollbackQ[k].correlationId # c
        => \A i \in RowsOf(c) : auditLogs[i].status # "SUCCESS"

\* C31: every audit.log.created on the bus names a stored row: the row with
\* the id it carries exists and has the correlation id it carries; an ack is
\* published only in the step that takes a request from audit.log.create,
\* stores its row and acknowledges that row under the request's
\* correlation id.
C31_AckNamesStoredRow ==
    \A k \in DOMAIN createdQ :
        \E i \in DOMAIN auditLogs :
            /\ auditLogs[i].id = createdQ[k].auditLogId
            /\ auditLogs[i].correlationId = createdQ[k].correlationId

C31_AckStep ==
    Len(createdQ') > Len(createdQ) =>
        /\ createQ # <<>> /\ createQ' = Tail(createQ)
        /\ Len(createdQ') = Len(createdQ) + 1
        /\ Len(auditLogs') = Len(auditLogs) + 1
        /\ LET ack == createdQ'[Len(createdQ')]
               row == auditLogs'[Len(auditLogs')] IN
           /\ ack.correlationId = Head(createQ).correlationId
           /\ ack.auditLogId = row.id
           /\ row.correlationId = Head(createQ).correlationId
           /\ ack.success

C31_AckOnlyAfterPersist == []C31_AckNamesStoredRow /\ [][C31_AckStep]_vars

\* the second request was stored and acknowledged with the id of its own
\* row, while the first request had been stored without an ack
C31_Witness ==
    /\ Len(createdQ) = 1 /\ Len(auditLogs) = 2
    /\ createdQ[1].auditLogId = auditLogs[2].id
    /\ createdQ[1].correlationId = auditLogs[2].correlationId
    /\ auditLogs[1].correlationId # auditLogs[2].correlationId

\* the messages of a subject that carry correlation id c
MsgsOf(q, c) == {k \in DOMAIN q : q[k].correlationId = c}

\* C33: a saga starts under a correlation id that no other saga has used
\* and that appears nowhere on the bus or in the audit store, and keeps it;
\* every request, rollback message and audit row carrying a correlation id
\* belongs to the saga that published under that id: same entity, user and
\* action.
C33_IdsMatch ==
    /\ \A k \in DOMAIN createQ :
          LET m == createQ[k]  c == m.correlationId IN
          /\ c \in CorrIds /\ saga[c].pub = "published"
          /\ m.entityId = saga[c].id /\ m.userId = saga[c].userId
          /\ m.action = ActionOf(saga[c].op)
    /\ \A i \in DOMAIN auditLogs :
          LET r == auditLogs[i]  c == r.correlationId IN
          /\ c \in CorrIds /\ saga[c].pub = "published"
          /\ r.entityId = saga[c].id /\ r.userId = saga[c].userId
          /\ r.action = ActionOf(saga[c].op)
    /\ \A k \in DOMAIN rollbackQ :
          LET c == rollbackQ[k].correlationId IN
          c \in CorrIds /\ saga[c].rb = "published"

C33_FreshStep ==
    \A c \in CorrIds :
        /\ saga[c].pc = "idle" /\ saga'[c].pc # "idle"
              => /\ c \notin resolvers
                 /\ MsgsOf(createQ, c) = {} /\ MsgsOf(rollbackQ, c) = {}
                 /\ MsgsOf(createdQ, c) = {} /\ RowsOf(c) = {}
                 /\ \A d \in CorrIds \ {c} : saga'[d] = saga[d]
        /\ saga[c].pc # "idle"
              => /\ saga'[c].pc # "idle" /\ saga'[c].op = saga[c].op
                 /\ saga'[c].id = saga[c].id
                 /\ saga'[c].userId = saga[c].userId

C33_FreshCorrelationId == []C33_IdsMatch /\ [][C33_FreshStep]_vars

\* two sagas of different operations on the same transaction each have
\* their own audit row under their own correlation id
C33_Witness ==
    \E c, d \in CorrIds :
        /\ c # d /\ saga[c].id = saga[d].id /\ saga[c].op # saga[d].op
        /\ \E i \in RowsOf(c) : auditLogs[i].action = ActionOf(saga[c].op)
        /\ \E j \in RowsOf(d) : auditLogs[j].action = ActionOf(saga[d].op)

\* C34: a saga holds its connection from the start of its local
\* transaction until it returns, and has released it when it has returned,
\* whatever the outcome; a released connection is not taken up again; a
\* returned saga's local transaction is committed or rolled back, and a
\* transaction that was committed or rolled back stays so.
C34_HeldUntilReturn ==
    \A c \in CorrIds :
        /\ saga[c].pc = "idle" <=> saga[c].conn = "none"
        /\ saga[c].pc \in {"registered", "waiting", "rolledback"}
              <=> saga[c].conn = "held"
        /\ saga[c].pc = "done" <=> saga[c].conn = "released"
        /\ saga[c].pc \in {"registered", "waiting"} <=> saga[c].tx = "active"
        /\ saga[c].pc = "done" => saga[c].tx \in {"committed", "rolledback"}
        /\ saga[c].tx = "committed" <=> Succeeded(c)

C34_ReleaseStep ==
    \A c \in CorrIds :
        /\ saga[c].conn = "released" => saga'[c].conn = "released"
        /\ saga[c].conn = "held" => saga'[c].conn \in {"held", "released"}
        /\ saga[c].tx \in {"committed", "rolledback"}
              => saga'[c].tx = saga[c].tx

C35_NoEntryAfterReturn ==
    \A c \in CorrIds : saga[c].pc = "done" => c \notin resolvers

\* C36: a saga publishes audit.log.rollback at most once, from its catch
\* block after the local rollback; a saga whose local transaction is
\* committed has published none, no rollback message carries its
\* correlation id and no row of it was marked ROLLED_BACK.
C36_NoRollbackForCommitted ==
    \A c \in CorrIds :
        /\ Cardinality(MsgsOf(rollbackQ, c)) <= 1
        /\ saga[c].tx = "committed"
              => /\ saga[c].rb = "none" /\ MsgsOf(rollbackQ, c) = {}
                 /\ \A i \in RowsOf(c) : auditLogs[i].status # "ROLLED_BACK"
        /\ saga[c].rb = "published" => saga[c].tx = "rolledback"

C36_RollbackStep ==
    \A c \in CorrIds :
        /\ Cardinality(MsgsOf(rollbackQ, c))' > Cardinality(MsgsOf(rollbackQ, c))
              => /\ saga[c].pc = "rolledback" /\ saga[c].rb = "none"
                 /\ saga[c].tx = "rolledback"
                 /\ saga'[c].rb = "published" /\ saga'[c].pc = "done"
        /\ saga[c].rb # "none" => saga'[c].rb = saga[c].rb

C36_RollbackAtMostOnce == []C36_NoRollbackForCommitted /\ [][C36_RollbackStep]_vars

\* one saga committed and one failed; the rollback message of the failed
\* one was handled, the committed one has none and its row is SUCCESS
C36_Witness ==
    \E c, d \in CorrIds :
        /\ saga[c].tx = "committed" /\ saga[c].rb = "none"
        /\ \E i \in RowsOf(c) : auditLogs[i].status = "SUCCESS"
        /\ saga[d].rb = "published" /\ saga[d].tx = "rolledback"
        /\ \E j \in RowsOf(d) : auditLogs[j].status = "ROLLED_BACK"

Taken == Head(createdQ)
Unroutable == ~Parses(Taken) \/ Taken.correlationId \notin resolvers

\* C38: the loop stays subscribed and takes the next message whatever it
\* took before; a message that does not parse or names no entry leaves
\* every promise, timer and entry as it was; an ack that names an entry
\* resolves the promise of that entry true, also after such messages.
C38_LoopAlive ==
    /\ subscribed
    /\ createdQ # <<>> => ENABLED RegistryReceive
    /\ resolvers = {waiters[w].key : w \in {v \in WaiterIds : waiters[v].entry}}

C38_TakeStep ==
    createdQ # <<>> /\ createdQ' = Tail(createdQ) =>
        IF Unroutable
        THEN UNCHANGED <<waiters, resolvers, subscribed>>
        ELSE \E w \in WaiterIds :
                /\ waiters[w].entry /\ waiters[w].key = Taken.correlationId
                /\ waiters[w].promise = "pending"
                /\ waiters'[w].promise = "true" /\ ~waiters'[w].timer
                /\ \A v \in WaiterIds \ {w} : waiters'[v] = waiters[v]

C38_BadMessageDropped == []C38_LoopAlive /\ [][C38_TakeStep]_vars

\* the loop caught a parse error, and the ack it took next resolved a
\* promise true while another promise is still pending with its entry
C38_Witness ==
    /\ loopLog = <<"error", "routed">>
    /\ \E w, v \in WaiterIds :
          /\ waiters[w].promise = "true"
          /\ waiters[v].promise = "pending" /\ waiters[v].entry

====
